---- MODULE Spec2Model ----
(***************************************************************************)
(* YOLACTLoss (src/loss/loss_yolact.py): the composite training loss of an *)
(* anchor-based instance-segmentation detector, as a state machine.  One   *)
(* behaviour is one call of YOLACTLoss.__call__ on one batch: the batch is *)
(* chosen in Init, and each action is one step of the call, in the order   *)
(* the code takes them.                                                    *)
(*                                                                         *)
(* Numbers.  float32 values are modelled as exact rationals <<n, d>> with  *)
(* the three IEEE specials: NaN = <<0,0>>, +Inf = <<1,0>>, -Inf = <<-1,0>>.*)
(* Logits are integer multiples of ln 2, so that exp() of a logit is a     *)
(* power of two and softmax / sigmoid are exact; a natural logarithm is    *)
(* taken from a table to three decimals.  Box offsets are multiples of 1/2.*)
(***************************************************************************)
EXTENDS Integers, Sequences, FiniteSets

\* ------------------------------------------------------------------ bounds
BatchSize == 2
NumAnchors == 3
NumClasses == 3
MaxObjects == 2
MaskSize == 4
SegSize == 2
NumProto == 1

\* ------------------------------------------------- configuration defaults
NegPosRatio == 3

\* rationals: box_prediction_loss_weight 1.5, mask_loss_weight 6.125
ClassificationLossWeight == <<1, 1>>
BoxPredictionLossWeight == <<3, 2>>
MaskLossWeight == <<49, 8>>
SegmentationLossWeight == <<1, 1>>

Images == 1..BatchSize
Anchors == 1..NumAnchors
Classes == 0..(NumClasses - 1)
Slots == 0..(MaxObjects - 1)
Coords == 1..4
Protos == 1..NumProto
MaskPixels == (0..(MaskSize - 1)) \X (0..(MaskSize - 1))
SegPixels == (0..(SegSize - 1)) \X (0..(SegSize - 1))

\* ------------------------------------------------------------- arithmetic
Abs(i) == IF i < 0 THEN -i ELSE i

Sign(i) == IF i < 0 THEN -1 ELSE IF i = 0 THEN 0 ELSE 1

Min(i, j) == IF i < j THEN i ELSE j

Max(i, j) == IF i < j THEN j ELSE i

RECURSIVE GCD(_, _)
GCD(a, b) == IF b = 0 THEN a ELSE GCD(b, a % b)

LCM(a, b) == (a \div GCD(a, b)) * b

RECURSIVE Pow2(_)
Pow2(k) == IF k <= 0 THEN 1 ELSE 2 * Pow2(k - 1)

NaN == <<0, 0>>
Zero == <<0, 1>>

IsFinite(x) == x[2] # 0

\* lowest terms, positive denominator; a zero denominator keeps only a sign
Norm(n, d) ==
  IF d = 0 THEN <<Sign(n), 0>>
  ELSE LET g == GCD(Abs(n), Abs(d))
       IN <<Sign(d) * (n \div g), Abs(d) \div g>>

FromInt(i) == <<i, 1>>

\* IEEE addition: NaN absorbs, Inf + (-Inf) = NaN, Inf + finite = Inf
FAdd(x, y) ==
  IF x[2] = 0 /\ y[2] = 0 THEN (IF x = y THEN x ELSE NaN)
  ELSE IF x[2] = 0 THEN x
  ELSE IF y[2] = 0 THEN y
  ELSE LET g == GCD(x[2], y[2])
       IN Norm(x[1] * (y[2] \div g) + y[1] * (x[2] \div g), x[2] * (y[2] \div g))

\* IEEE multiplication: 0 * Inf = NaN
FMul(x, y) ==
  IF x[2] = 0 \/ y[2] = 0 THEN <<Sign(x[1]) * Sign(y[1]), 0>>
  ELSE LET g1 == GCD(Abs(x[1]), y[2])
           g2 == GCD(Abs(y[1]), x[2])
           h1 == IF g1 = 0 THEN 1 ELSE g1
           h2 == IF g2 = 0 THEN 1 ELSE g2
       IN Norm((x[1] \div h1) * (y[1] \div h2), (x[2] \div h2) * (y[2] \div h1))

\* 1/0 = +Inf, 1/Inf = 0, 1/NaN = NaN
Recip(x) == IF x[1] < 0 THEN <<-x[2], -x[1]>> ELSE <<x[2], x[1]>>

\* IEEE division: 0/0 = NaN, x/0 = +-Inf
FDiv(x, y) == FMul(x, Recip(y))

\* the sum of a sequence of values, left to right
FSum(s) ==
  LET t == SubSeq(s, 1, Len(s))
      RECURSIVE Upto(_)
      Upto(n) == IF n = 0 THEN Zero ELSE FAdd(Upto(n - 1), t[n])
  IN Upto(Len(t))

\* ln of the primes, to three decimals
LnPrimeMilli(p) ==
  CASE p = 2 -> 693 [] p = 3 -> 1099 [] p = 5 -> 1609 [] p = 7 -> 1946
    [] p = 11 -> 2398 [] p = 13 -> 2565 [] p = 17 -> 2833 [] p = 19 -> 2944

SmallestFactor(n) == CHOOSE p \in 2..n : n % p = 0 /\ \A q \in 2..(p - 1) : n % q # 0

\* 1000 * ln(n) for an integer n >= 1, additive over the factors of n
RECURSIVE LnMilli(_)
LnMilli(n) ==
  IF n <= 1 THEN 0
  ELSE LET p == SmallestFactor(n) IN LnPrimeMilli(p) + LnMilli(n \div p)

Ln2Milli == LnMilli(2)

\* the ascending sequence of the elements of a finite set of integers
RECURSIVE SortedSeq(_)
SortedSeq(S) ==
  IF S = {} THEN <<>>
  ELSE LET m == CHOOSE x \in S : \A y \in S : x <= y
       IN <<m>> \o SortedSeq(S \ {m})

\* ------------------------------------------------------ library kernels
\* tf.keras.losses.Huber(delta=1., reduction=NONE) on one row of 4 offsets
\* (in halves): the elementwise Huber value, reduced over the last axis by
\* its mean (keras reduces axis -1 of every loss before `reduction` applies)
HuberElem(h) == IF Abs(h) <= 2 THEN Norm(h * h, 8) ELSE Norm(Abs(h) - 1, 2)

HuberRowSum(gt, pred) == FSum([i \in Coords |-> HuberElem(pred[i] - gt[i])])

smoothl1loss(gt, pred) == FDiv(HuberRowSum(gt, pred), FromInt(4))

\* tf.nn.softmax_cross_entropy_with_logits(one_hot(label), row): row is in
\* units of ln 2; a label outside 0..depth-1 has an all-zero one_hot row
SoftmaxCrossEntropy(label, row) ==
  IF label \notin Classes THEN Zero
  ELSE LET kmin == CHOOSE k \in {row[c] : c \in Classes} : \A c \in Classes : k <= row[c]
           total == LET RECURSIVE Acc(_)
                        Acc(c) == IF c < 0 THEN 0 ELSE Pow2(row[c] - kmin) + Acc(c - 1)
                    IN Acc(NumClasses - 1)
       IN Norm(LnMilli(total) - (row[label] - kmin) * Ln2Milli, 1000)

\* tf.nn.sigmoid_cross_entropy_with_logits(z, x), x = k ln 2:
\* max(x, 0) - x z + ln(1 + exp(-|x|))
SigmoidCrossEntropy(z, k) ==
  Norm(Max(k, 0) * Ln2Milli - k * z * Ln2Milli + LnMilli(Pow2(Abs(k)) + 1) - Abs(k) * Ln2Milli, 1000)

\* -1 * tf.math.log(x) of a raw value x = k ln 2: NaN below zero, +Inf at
\* zero, finite and strictly decreasing in k above it
MinusLog(k) ==
  IF k < 0 THEN [kind |-> "nan", key |-> 0]
  ELSE IF k = 0 THEN [kind |-> "inf", key |-> 0]
  ELSE [kind |-> "fin", key |-> k]

\* s > t on two such values (false whenever one is NaN)
ScoreGreater(s, t) ==
  /\ s.kind # "nan" /\ t.kind # "nan"
  /\ \/ s.kind = "inf" /\ t.kind = "fin"
     \/ s.kind = "fin" /\ t.kind = "fin" /\ s.key < t.key

\* tf.image.resize(..., BILINEAR) of one [MaskSize, MaskSize] mask to
\* [SegSize, SegSize] (half-pixel centres, no antialiasing), then
\* tf.cast(masks + 0.5, tf.int64): the interpolated value, scaled by
\* (2 SegSize)^2, and its rounding
ResizeDen == 2 * SegSize

InCoord(i) == (2 * i + 1) * MaskSize - SegSize

Lower(i) == Max(InCoord(i) \div ResizeDen, 0)

Upper(i) == Min(-((-InCoord(i)) \div ResizeDen), MaskSize - 1)

Lerp(i) == InCoord(i) - (InCoord(i) \div ResizeDen) * ResizeDen

BilinearScaled(m, r, c) ==
  LET top == m[<<Lower(r), Lower(c)>>] * (ResizeDen - Lerp(c)) + m[<<Lower(r), Upper(c)>>] * Lerp(c)
      bot == m[<<Upper(r), Lower(c)>>] * (ResizeDen - Lerp(c)) + m[<<Upper(r), Upper(c)>>] * Lerp(c)
  IN top * (ResizeDen - Lerp(r)) + bot * Lerp(r)

ResizeMask(m) ==
  [p \in SegPixels |-> IF 2 * BilinearScaled(m, p[1], p[2]) >= ResizeDen * ResizeDen THEN 1 ELSE 0]

\* ---------------------------------------------------------- _loss_location
\* the batch flattened row-major: flat index f <-> (image, anchor)
NumFlat == BatchSize * NumAnchors

ImageOf(f) == ((f - 1) \div NumAnchors) + 1

AnchorOf(f) == ((f - 1) % NumAnchors) + 1

\* tf.where(positiveness == v), in row-major order
WhereEq(yt, v) ==
  SortedSeq({f \in 1..NumFlat : yt[ImageOf(f)].positiveness[AnchorOf(f)] = v})

LossLocation(yt, yp) ==
  LET pos_indices == WhereEq(yt, 1)
      num_pos == Len(pos_indices)
      rows == [i \in 1..num_pos |->
                 smoothl1loss(yt[ImageOf(pos_indices[i])].box_targets[AnchorOf(pos_indices[i])],
                              yp[ImageOf(pos_indices[i])].pred_offset[AnchorOf(pos_indices[i])])]
  IN FDiv(FSum(rows), FromInt(num_pos))

\* ------------------------------------------------------------- _loss_class
PredCls(yp, f) == yp[ImageOf(f)].pred_cls[AnchorOf(f)]

GtCls(yt, f) == yt[ImageOf(f)].cls_targets[AnchorOf(f)]

NumNegNeededNoRatio(num_pos) == num_pos

NumNegNeeded(num_pos) == num_pos * NegPosRatio

\* neg_minus_log_class0: no softmax is applied (neg_softmax = neg_pred_cls),
\* so the score is -log of the raw class-0 value
NegMinusLogClass0(yt, yp) ==
  LET neg_indices == WhereEq(yt, 0)
      n == Len(neg_indices)
  IN SubSeq([i \in 1..n |-> MinusLog(PredCls(yp, neg_indices[i])[0])], 1, n)

\* tf.argsort(values, direction="DESCENDING"): a stable sort (equal values
\* keep their order), defined when no value is NaN.  Position i of the result
\* holds the element with i-1 elements ahead of it.
Ahead(values, j, i) ==
  \/ ScoreGreater(values[j], values[i])
  \/ ~ScoreGreater(values[i], values[j]) /\ j < i

ArgsortDescending(values) ==
  LET n == Len(values)
      rank == SubSeq([i \in 1..n |-> 1 + Cardinality({j \in 1..n : j # i /\ Ahead(values, j, i)})], 1, n)
  IN SubSeq([r \in 1..n |-> CHOOSE i \in 1..n : rank[i] = r], 1, n)

\* neg_minus_log_class0_sort[:num_neg_needed]
TakeFirst(sorted, num_neg_needed) == SubSeq(sorted, 1, Min(num_neg_needed, Len(sorted)))

\* every value neg_indices_for_loss can take: the slice of the sorted
\* order; with a NaN among the scores the comparison is no order and the
\* sort may leave any elements in front (kept here in ascending position)
NegIndicesForLoss(yt, yp) ==
  LET values == NegMinusLogClass0(yt, yp)
      n == Len(values)
      num_pos == Len(WhereEq(yt, 1))
      cut == Len(TakeFirst([i \in 1..n |-> i], NumNegNeeded(num_pos)))
  IN IF \E i \in 1..n : values[i].kind = "nan"
     THEN {SortedSeq(S) : S \in {T \in SUBSET (1..n) : Cardinality(T) = cut}}
     ELSE {TakeFirst(ArgsortDescending(values), NumNegNeeded(num_pos))}

\* the loss for one value of neg_indices_for_loss
LossClass(yt, yp, neg_indices_for_loss) ==
  LET pos_indices == WhereEq(yt, 1)
      neg_indices == WhereEq(yt, 0)
      num_pos == Len(pos_indices)
      pos_ce == [i \in 1..num_pos |->
                   SoftmaxCrossEntropy(GtCls(yt, pos_indices[i]), PredCls(yp, pos_indices[i]))]
      neg_ce == [i \in 1..Len(neg_indices_for_loss) |->
                   SoftmaxCrossEntropy(GtCls(yt, neg_indices[neg_indices_for_loss[i]]),
                                       PredCls(yp, neg_indices[neg_indices_for_loss[i]]))]
  IN FDiv(FAdd(FSum(pos_ce), FSum(neg_ce)), FromInt(num_pos))

\* -------------------------------------------------------------- _loss_mask
\* the pixels of a [MaskSize, MaskSize] map in row-major order
PixelSeq == [q \in 1..(MaskSize * MaskSize) |-> <<(q - 1) \div MaskSize, (q - 1) % MaskSize>>]

SegPixelSeq == [q \in 1..(SegSize * SegSize) |-> <<(q - 1) \div SegSize, (q - 1) % SegSize>>]

ZeroMask == [px \in MaskPixels |-> 0]

ZeroBox == <<0, 0, 0, 0>>

\* tf.gather(params, indices) on one index: an index outside the first axis
\* raises on CPU and reads zeros on GPU
InRange(id) == id \in Slots

Gather(params, id, zero) == IF InRange(id) THEN params[id] ELSE zero

\* utils.map_to_center_form of a corner box <<x1, y1, x2, y2>> given in
\* units of 1/MaskSize: <<cx, cy, w, h>>
map_to_center_form(bbox) ==
  <<Norm(bbox[1] + bbox[3], 2 * MaskSize), Norm(bbox[2] + bbox[4], 2 * MaskSize),
    Norm(bbox[3] - bbox[1], MaskSize), Norm(bbox[4] - bbox[2], MaskSize)>>

\* utils.crop: the loss map with zeros outside the box
crop(s, bbox) ==
  [px \in MaskPixels |->
     IF bbox[1] <= px[2] /\ px[2] < bbox[3] /\ bbox[2] <= px[1] /\ px[1] < bbox[4]
     THEN s[px] ELSE Zero]

\* tf.linalg.matmul(proto, pos_mask_coef, transpose_b=True) at one pixel
\* and one anchor
PredMask(proto, coef, px) ==
  LET RECURSIVE Dot(_)
      Dot(k) == IF k = 0 THEN 0 ELSE proto[px][k] * coef[k] + Dot(k - 1)
  IN Dot(NumProto)

PosAnchors(t) == SortedSeq({a \in Anchors : t.positiveness[a] = 1})

\* the loss of one positive anchor: reduce_sum(crop(s, bbox)) / area
AnchorMaskLoss(t, p, a) ==
  LET pos_max_id == t.max_id_for_anchors[a]
      gt == Gather(t.mask_target, pos_max_id, ZeroMask)
      bbox == Gather(t.bbox_for_norm, pos_max_id, ZeroBox)
      bbox_center == map_to_center_form(bbox)
      area == FMul(bbox_center[4], bbox_center[3])
      s == [px \in MaskPixels |-> SigmoidCrossEntropy(gt[px], PredMask(p.proto_out, p.pred_mask_coef[a], px))]
      cropped == crop(s, bbox)
  IN FDiv(FSum([q \in 1..Len(PixelSeq) |-> cropped[PixelSeq[q]]]), area)

\* how tf.gather(mask_gt, pos_max_id) can end for one image: with an index
\* out of range it raises on CPU and goes on, reading zeros, on GPU
GatherOutcomes(t) ==
  IF \E a \in Anchors : t.positiveness[a] = 1 /\ ~InRange(t.max_id_for_anchors[a])
  THEN {"raise", "zeros"} ELSE {"ok"}

ImageMaskLoss(t, p) ==
  LET pos_indices == PosAnchors(t)
  IN FSum([i \in 1..Len(pos_indices) |-> AnchorMaskLoss(t, p, pos_indices[i])])

\* loss_mask += tf.reduce_sum(loss)
AccumulateOverwrite(acc, x) == x

Accumulate(acc, x) == FAdd(acc, x)

\* ------------------------------------------- _loss_semantic_segmentation
\* masks[:objects], cls[:objects]: the slots the slice keeps
SliceAll(objects) == Slots

ObjSlice(objects) == {m \in Slots : m < objects}

ZeroSegGt == [c \in Classes |-> [px \in SegPixels |-> 0]]

\* tf.tensor_scatter_nd_update(seg_gt, indices=obj_cls, updates=obj_mask)
\* writes a whole [SegSize, SegSize] slice per index.  With an index used
\* twice the order of the updates is not defined, so any one of the writers
\* of a channel may be the last; an index out of range raises on CPU and is
\* skipped on GPU.
Writers(obj_cls, kept, c) == {m \in kept : obj_cls[m] = c}

ScatterUnion(seg_gt, obj_cls, obj_mask, kept) ==
  {[c \in Classes |-> [px \in SegPixels |->
      IF \E m \in Writers(obj_cls, kept, c) : obj_mask[m][px] = 1 THEN 1 ELSE seg_gt[c][px]]]}

tensor_scatter_nd_update(seg_gt, obj_cls, obj_mask, kept) ==
  LET Last(c) == IF Writers(obj_cls, kept, c) = {} THEN {-1} ELSE Writers(obj_cls, kept, c)
      RECURSIVE Channels(_)
      Channels(n) ==
        IF n = 0 THEN {<<>>}
        ELSE {Append(w, IF m = -1 THEN seg_gt[n - 1] ELSE obj_mask[m]) :
                w \in Channels(n - 1), m \in Last(n - 1)}
  IN {[c \in Classes |-> w[c + 1]] : w \in Channels(NumClasses)}

\* how the scatter can end for one image
ScatterOutcomes(t) ==
  IF \E m \in ObjSlice(t.num_obj) : t.classes[m] \notin Classes
  THEN {"raise", "skip"} ELSE {"ok"}

\* every value seg_gt can take for one image
SegGt(t) ==
  LET masks == [m \in Slots |-> ResizeMask(t.mask_target[m])]
  IN tensor_scatter_nd_update(ZeroSegGt, t.classes, masks, ObjSlice(t.num_obj))

\* tf.reduce_sum(tf.nn.sigmoid_cross_entropy_with_logits(seg_gt, seg))
ImageSegLoss(p, gt) ==
  FSum([q \in 1..Len(SegPixelSeq) |->
          FSum([c1 \in 1..NumClasses |-> SigmoidCrossEntropy(gt[c1 - 1][SegPixelSeq[q]], p.seg[SegPixelSeq[q]][c1 - 1])])])

\* ----------------------------------------------------------------- __call__
TotalLossSwapped(loc, conf, mask, seg) ==
  FAdd(FAdd(FAdd(FMul(MaskLossWeight, loc), FMul(ClassificationLossWeight, conf)),
            FMul(BoxPredictionLossWeight, mask)),
       FMul(SegmentationLossWeight, seg))

TotalLoss(loc, conf, mask, seg) ==
  FAdd(FAdd(FAdd(FMul(BoxPredictionLossWeight, loc), FMul(ClassificationLossWeight, conf)),
            FMul(MaskLossWeight, mask)),
       FMul(SegmentationLossWeight, seg))

\* ------------------------------------------------------------ the batches
\* One image of the batch is built from six named patterns, each defined for
\* every size of the model.
Half == MaskSize \div 2

MaskPattern(name) ==
  [px \in MaskPixels |->
     CASE name = "full" -> 1
       [] name = "empty" -> 0
       [] name = "top" -> IF px[1] < Half THEN 1 ELSE 0
       [] name = "left" -> IF px[2] < Half THEN 1 ELSE 0]

MaskNames == {"full", "empty", "top", "left"}

PosPattern(name) ==
  [a \in Anchors |->
     CASE name = "none" -> 0
       [] name = "first" -> IF a = 1 THEN 1 ELSE 0
       [] name = "all" -> 1
       [] name = "ignore" -> IF a = 1 THEN 1 ELSE IF a = NumAnchors THEN -1 ELSE 0]

LogitPattern(name) ==
  [a \in Anchors |-> [c \in Classes |->
     CASE name = "flat" -> 0
       [] name = "tied" -> IF c = 0 THEN 1 ELSE IF a % 2 = 1 THEN 1 ELSE -1
       [] name = "mixed" -> IF a = 1 THEN 1 ELSE IF c = 0 THEN 0 ELSE -1
       [] name = "nan" -> IF c = 0 THEN (IF a = 1 THEN -1 ELSE 1) ELSE 0]]

\* predicted offsets, in halves; the targets are all zero
OffsetPattern(name) ==
  [a \in Anchors |-> [i \in Coords |->
     CASE name = "exact" -> 0
       [] name = "half" -> 1
       [] name = "ramp" -> IF a % 2 = 1 THEN i ELSE -i]]

\* the objects of an image: <<num_obj, masks, classes, boxes>> by slot
ObjectPattern(name) ==
  CASE name = "one" ->
         [num_obj |-> 1,
          mask_target |-> [m \in Slots |-> MaskPattern(IF m = 0 THEN "full" ELSE "empty")],
          classes |-> [m \in Slots |-> IF m = 0 THEN 1 ELSE 0],
          bbox_for_norm |-> [m \in Slots |-> <<0, 0, MaskSize, MaskSize>>]]
    [] name = "two_diff" ->
         [num_obj |-> 2,
          mask_target |-> [m \in Slots |-> MaskPattern(IF m = 0 THEN "top" ELSE IF m = 1 THEN "left" ELSE "empty")],
          classes |-> [m \in Slots |-> IF m = 0 THEN 1 ELSE IF m = 1 THEN 2 ELSE 0],
          bbox_for_norm |-> [m \in Slots |-> IF m = 0 THEN <<0, 0, MaskSize, Half>> ELSE <<0, 0, Half, MaskSize>>]]
    [] name = "two_same" ->
         [num_obj |-> 2,
          mask_target |-> [m \in Slots |-> MaskPattern(IF m = 0 THEN "top" ELSE IF m = 1 THEN "left" ELSE "empty")],
          classes |-> [m \in Slots |-> IF m <= 1 THEN 1 ELSE 0],
          bbox_for_norm |-> [m \in Slots |-> IF m = 0 THEN <<0, 0, MaskSize, Half>> ELSE <<0, 0, Half, MaskSize>>]]
    [] name = "padded" ->
         [num_obj |-> 1,
          mask_target |-> [m \in Slots |-> MaskPattern(IF m = 0 THEN "top" ELSE "full")],
          classes |-> [m \in Slots |-> IF m = 0 THEN 1 ELSE 2],
          bbox_for_norm |-> [m \in Slots |-> <<0, 0, MaskSize, MaskSize>>]]
    [] name = "no_obj" ->
         [num_obj |-> 0,
          mask_target |-> [m \in Slots |-> MaskPattern("left")],
          classes |-> [m \in Slots |-> 1],
          bbox_for_norm |-> [m \in Slots |-> <<0, 0, MaskSize, MaskSize>>]]
    \* inputs that break a precondition of the call
    [] name = "too_many" ->
         [num_obj |-> MaxObjects + 1,
          mask_target |-> [m \in Slots |-> MaskPattern(IF m = 0 THEN "top" ELSE "left")],
          classes |-> [m \in Slots |-> IF m = 0 THEN 1 ELSE 2],
          bbox_for_norm |-> [m \in Slots |-> <<0, 0, MaskSize, MaskSize>>]]
    [] name = "bad_class" ->
         [num_obj |-> 1,
          mask_target |-> [m \in Slots |-> MaskPattern("top")],
          classes |-> [m \in Slots |-> NumClasses],
          bbox_for_norm |-> [m \in Slots |-> <<0, 0, MaskSize, MaskSize>>]]

\* prototypes and coefficients (units of ln 2 and plain integers), and the
\* matched object of every anchor
CoefPattern(name, num_obj) ==
  [proto_out |-> [px \in MaskPixels |-> [k \in Protos |->
                    CASE name = "unit" -> IF k = 1 THEN (IF px[1] < Half THEN 1 ELSE -1) ELSE 0
                      [] OTHER -> 0]],
   pred_mask_coef |-> [a \in Anchors |-> [k \in Protos |->
                    CASE name = "unit" -> IF k = 1 THEN (IF a % 2 = 1 THEN 1 ELSE -1) ELSE 0
                      [] OTHER -> 0]],
   max_id_for_anchors |-> [a \in Anchors |->
                    CASE name = "unit" -> IF num_obj >= 1 THEN (a - 1) % Min(num_obj, MaxObjects) ELSE 0
                      [] name = "zero" -> 0
                      [] name = "beyond" -> MaxObjects
                      [] name = "negative" -> -1
                      [] name = "padding" -> num_obj]]

SegPattern(name) ==
  [px \in SegPixels |-> [c \in Classes |->
     CASE name = "zero" -> 0
       [] name = "sharp" -> IF c = 1 /\ px[1] = 0 THEN 1 ELSE -1]]

Kind(pos, logit, off, obj, coef, seg) ==
  [pos |-> pos, logit |-> logit, off |-> off, obj |-> obj, coef |-> coef, seg |-> seg]

\* images that meet the preconditions of the call: every positive anchor is
\* matched to an object below num_obj <= MaxObjects, classes are in range
Kinds ==
  { Kind("none", "flat", "exact", "one", "zero", "zero"),
    Kind("first", "flat", "exact", "one", "zero", "zero"),
    Kind("ignore", "flat", "exact", "one", "zero", "zero"),
    Kind("none", "tied", "exact", "one", "zero", "zero"),
    Kind("none", "mixed", "exact", "one", "zero", "zero"),
    Kind("first", "flat", "half", "one", "zero", "zero"),
    Kind("all", "flat", "ramp", "one", "zero", "zero"),
    Kind("first", "flat", "exact", "two_diff", "unit", "zero"),
    Kind("all", "flat", "exact", "two_same", "unit", "sharp"),
    Kind("none", "flat", "exact", "padded", "zero", "sharp"),
    Kind("none", "flat", "exact", "no_obj", "zero", "zero") }

\* images for the classification loss alone, one of them with a raw class-0
\* value below zero (a NaN score)
ClassKinds ==
  { Kind("none", "flat", "exact", "one", "zero", "zero"),
    Kind("first", "flat", "exact", "one", "zero", "zero"),
    Kind("all", "flat", "exact", "one", "zero", "zero"),
    Kind("ignore", "flat", "exact", "one", "zero", "zero"),
    Kind("none", "tied", "exact", "one", "zero", "zero"),
    Kind("none", "nan", "exact", "one", "zero", "zero") }

\* images for the per-image loops alone
LoopKinds ==
  { Kind("none", "flat", "exact", "one", "zero", "zero"),
    Kind("first", "flat", "half", "one", "zero", "zero"),
    Kind("first", "flat", "exact", "two_diff", "unit", "zero"),
    Kind("all", "flat", "exact", "two_same", "unit", "sharp"),
    Kind("none", "flat", "exact", "padded", "zero", "sharp"),
    Kind("all", "flat", "exact", "padded", "unit", "zero") }

\* images that break one
BadKinds ==
  { Kind("none", "flat", "exact", "too_many", "zero", "zero"),
    Kind("first", "flat", "exact", "too_many", "unit", "sharp"),
    Kind("first", "flat", "exact", "one", "beyond", "zero"),
    Kind("first", "flat", "exact", "one", "negative", "zero"),
    Kind("all", "flat", "exact", "padded", "padding", "zero"),
    Kind("none", "flat", "exact", "bad_class", "zero", "zero") }

\* y_true[b] and y_pred[b] of an image of kind k
TrueOf(k) ==
  LET obj == ObjectPattern(k.obj)
      pos == PosPattern(k.pos)
  IN [cls_targets |-> [a \in Anchors |-> IF pos[a] = 1 THEN 1 + (a % (NumClasses - 1)) ELSE 0],
      box_targets |-> [a \in Anchors |-> [i \in Coords |-> 0]],
      positiveness |-> pos,
      bbox_for_norm |-> obj.bbox_for_norm,
      mask_target |-> obj.mask_target,
      max_id_for_anchors |-> CoefPattern(k.coef, obj.num_obj).max_id_for_anchors,
      classes |-> obj.classes,
      num_obj |-> obj.num_obj]

PredOf(k) ==
  [pred_cls |-> LogitPattern(k.logit),
   pred_offset |-> OffsetPattern(k.off),
   pred_mask_coef |-> CoefPattern(k.coef, 0).pred_mask_coef,
   proto_out |-> CoefPattern(k.coef, 0).proto_out,
   seg |-> SegPattern(k.seg)]

\* -------------------------------------------------------------- the call
VARIABLES
  y_true, y_pred,        \* the batch: per image, the label and prediction bundles
  order,                 \* the order in which the per-image loops take the images
  pc,                    \* where __call__ stands
  idx,                   \* iterations of the running per-image loop done so far
  loc_loss, conf_loss, mask_loss, seg_loss, total_loss,
  neg_indices_for_loss,  \* _loss_class: positions in the negative list
  loss_mask, total_pos,  \* _loss_mask: running sum and positive count
  loss_seg,              \* _loss_semantic_segmentation: running sum
  seg_gt,                \* the segmentation target built for each image
  returned               \* the tuple __call__ returns

vars == <<y_true, y_pred, order, pc, idx, loc_loss, conf_loss, mask_loss, seg_loss,
          total_loss, neg_indices_for_loss, loss_mask, total_pos, loss_seg, seg_gt, returned>>

inputs == <<y_true, y_pred, order>>

Unset == <<>>

Permutations == {s \in [Images -> Images] : \A i, j \in Images : s[i] = s[j] => i = j}

Identity == [b \in Images |-> b]

Start ==
  /\ pc = "loc"
  /\ idx = 0
  /\ loc_loss = Unset /\ conf_loss = Unset /\ mask_loss = Unset
  /\ seg_loss = Unset /\ total_loss = Unset
  /\ neg_indices_for_loss = Unset
  /\ loss_mask = Zero /\ total_pos = 0
  /\ loss_seg = Zero
  /\ seg_gt = [b \in Images |-> Unset]
  /\ returned = Unset

Batch(kinds) ==
  \E k \in [Images -> kinds] :
    /\ y_true = [b \in Images |-> TrueOf(k[b])]
    /\ y_pred = [b \in Images |-> PredOf(k[b])]

\* `for idx in tf.range(batch_size)` takes the images in index order
Init == Batch(Kinds) /\ order = Identity /\ Start

\* the same call with the per-image loops taking the images in any order
InitAnyOrder == Batch(LoopKinds) /\ order \in Permutations /\ Start

\* the call on the batches made for the classification loss
InitClass == Batch(ClassKinds) /\ order = Identity /\ Start

\* the call on a batch with at least one image that breaks a precondition
InitInvalid ==
  /\ \E k \in [Images -> Kinds \cup BadKinds] :
       /\ \E b \in Images : k[b] \in BadKinds
       /\ y_true = [b \in Images |-> TrueOf(k[b])]
       /\ y_pred = [b \in Images |-> PredOf(k[b])]
  /\ order = Identity
  /\ Start

\* line 41
CallLossLocation ==
  /\ pc = "loc"
  /\ loc_loss' = LossLocation(y_true, y_pred)
  /\ pc' = "cls"
  /\ UNCHANGED <<inputs, idx, conf_loss, mask_loss, seg_loss, total_loss,
                 neg_indices_for_loss, loss_mask, total_pos, loss_seg, seg_gt, returned>>

\* line 42
CallLossClass ==
  /\ pc = "cls"
  /\ \E sel \in NegIndicesForLoss(y_true, y_pred) :
       /\ neg_indices_for_loss' = sel
       /\ conf_loss' = LossClass(y_true, y_pred, sel)
  /\ pc' = "mask"
  /\ UNCHANGED <<inputs, idx, loc_loss, mask_loss, seg_loss, total_loss,
                 loss_mask, total_pos, loss_seg, seg_gt, returned>>

\* lines 125-158: one iteration of the loop of _loss_mask
MaskLoopBody ==
  /\ pc = "mask" /\ idx < BatchSize
  /\ \E outcome \in GatherOutcomes(y_true[order[idx + 1]]) :
       LET b == order[idx + 1] IN
       IF outcome = "raise"
       THEN /\ pc' = "error"
            /\ UNCHANGED <<idx, loss_mask, total_pos>>
       ELSE /\ loss_mask' = Accumulate(loss_mask, ImageMaskLoss(y_true[b], y_pred[b]))
            /\ total_pos' = total_pos + Len(PosAnchors(y_true[b]))
            /\ idx' = idx + 1
            /\ pc' = pc
  /\ UNCHANGED <<inputs, loc_loss, conf_loss, mask_loss, seg_loss, total_loss,
                 neg_indices_for_loss, loss_seg, seg_gt, returned>>

\* lines 160-161
MaskLoopEnd ==
  /\ pc = "mask" /\ idx = BatchSize
  /\ mask_loss' = FDiv(loss_mask, FromInt(total_pos))
  /\ pc' = "seg"
  /\ idx' = 0
  /\ UNCHANGED <<inputs, loc_loss, conf_loss, seg_loss, total_loss,
                 neg_indices_for_loss, loss_mask, total_pos, loss_seg, seg_gt, returned>>

\* lines 169-191: one iteration of the loop of _loss_semantic_segmentation
SegLoopBody ==
  /\ pc = "seg" /\ idx < BatchSize
  /\ \E outcome \in ScatterOutcomes(y_true[order[idx + 1]]) :
       LET b == order[idx + 1] IN
       IF outcome = "raise"
       THEN /\ pc' = "error"
            /\ UNCHANGED <<idx, loss_seg, seg_gt>>
       ELSE \E gt \in SegGt(y_true[b]) :
              /\ seg_gt' = [seg_gt EXCEPT ![b] = gt]
              /\ loss_seg' = Accumulate(loss_seg, ImageSegLoss(y_pred[b], gt))
              /\ idx' = idx + 1
              /\ pc' = pc
  /\ UNCHANGED <<inputs, loc_loss, conf_loss, mask_loss, seg_loss, total_loss,
                 neg_indices_for_loss, loss_mask, total_pos, returned>>

\* lines 192-194
SegLoopEnd ==
  /\ pc = "seg" /\ idx = BatchSize
  /\ seg_loss' = FDiv(FDiv(loss_seg, FromInt(SegSize * SegSize)), FromInt(BatchSize))
  /\ pc' = "total"
  /\ idx' = 0
  /\ UNCHANGED <<inputs, loc_loss, conf_loss, mask_loss, total_loss,
                 neg_indices_for_loss, loss_mask, total_pos, loss_seg, seg_gt, returned>>

\* lines 46-50
Return ==
  /\ pc = "total"
  /\ total_loss' = TotalLoss(loc_loss, conf_loss, mask_loss, seg_loss)
  /\ returned' = <<loc_loss, conf_loss, mask_loss, seg_loss, total_loss'>>
  /\ pc' = "done"
  /\ UNCHANGED <<inputs, idx, loc_loss, conf_loss, mask_loss, seg_loss,
                 neg_indices_for_loss, loss_mask, total_pos, loss_seg, seg_gt>>

Next ==
  \/ CallLossLocation
  \/ CallLossClass
  \/ MaskLoopBody
  \/ MaskLoopEnd
  \/ SegLoopBody
  \/ SegLoopEnd
  \/ Return

Spec == Init /\ [][Next]_vars

SpecAnyOrder == InitAnyOrder /\ [][Next]_vars

SpecClass == InitClass /\ [][Next]_vars

SpecInvalid == InitInvalid /\ [][Next]_vars

\* ---------------------------------------------------------------- claims
NumPos == Len(WhereEq(y_true, 1))

NumNeg == Len(WhereEq(y_true, 0))

ClassDone == pc \notin {"loc", "cls"}

RatLess(x, y) == x[1] * y[2] < y[1] * x[2]

\* C1: in a batch with no positive anchor the localization, classification
\* and mask losses the call returns are all 0.
C1_DegenerateBatchIsZero ==
  (pc = "done" /\ NumPos = 0) =>
    (returned[1] = Zero /\ returned[2] = Zero /\ returned[3] = Zero)

\* C2: the classification loss selects exactly min(P * neg_pos_ratio, N)
\* negative anchors, each a negative and none twice; with N < P *
\* neg_pos_ratio that is all N of them.
C2_HardNegativeCount ==
  ClassDone =>
    /\ Len(neg_indices_for_loss) = Min(NumPos * NegPosRatio, NumNeg)
    /\ \A i \in 1..Len(neg_indices_for_loss) : neg_indices_for_loss[i] \in 1..NumNeg
    /\ \A i, j \in 1..Len(neg_indices_for_loss) :
         neg_indices_for_loss[i] = neg_indices_for_loss[j] => i = j

C2_Witness ==
  /\ ClassDone
  /\ NumPos >= 1 /\ NumNeg >= 1 /\ NumNeg < NumPos * NegPosRatio
  /\ Len(neg_indices_for_loss) = NumNeg

\* the softmax probability of class 0 for one row of logits
BackgroundProbability(row) ==
  LET kmin == CHOOSE k \in {row[c] : c \in Classes} : \A c \in Classes : k <= row[c]
      total == LET RECURSIVE Acc(_)
                   Acc(c) == IF c < 0 THEN 0 ELSE Pow2(row[c] - kmin) + Acc(c - 1)
               IN Acc(NumClasses - 1)
  IN Norm(Pow2(row[0] - kmin), total)

\* no raw class-0 value of a negative anchor is below zero: the scores the
\* code sorts are all numbers and its sort is an order
SortDefined ==
  \A i \in 1..NumNeg : NegMinusLogClass0(y_true, y_pred)[i].kind # "nan"

\* C3: the selected negatives are the hardest by -log(softmax probability
\* of class 0): no unselected negative has a strictly larger score, that
\* is a strictly smaller background probability, than a selected one
\* (stated on the batches whose sort is defined).
C3_HardestBySoftmaxScore ==
  (ClassDone /\ SortDefined) =>
    LET neg_indices == WhereEq(y_true, 0)
        selected == {neg_indices_for_loss[i] : i \in 1..Len(neg_indices_for_loss)}
    IN \A i \in selected : \A j \in (1..NumNeg) \ selected :
         ~RatLess(BackgroundProbability(PredCls(y_pred, neg_indices[j])),
                  BackgroundProbability(PredCls(y_pred, neg_indices[i])))

\* C4: the call returns (loc, cls, mask, seg, total) in that order, and
\* total = 1.5 loc + 1 cls + 6.125 mask + 1 seg of the four returned values
\* (8 total = 12 loc + 8 cls + 49 mask + 8 seg, in units of 1/d for a common
\* denominator d);
\* a component that is no number leaves no number in total.
C4_Aggregation ==
  pc = "done" =>
    /\ returned = <<loc_loss, conf_loss, mask_loss, seg_loss, total_loss>>
    /\ IF \A i \in 1..4 : IsFinite(returned[i])
       THEN LET d == 8 * LCM(LCM(returned[1][2], returned[2][2]), LCM(returned[3][2], returned[4][2]))
                part(i) == returned[i][1] * (d \div (8 * returned[i][2]))
            IN /\ IsFinite(returned[5])
               /\ d % returned[5][2] = 0
               /\ returned[5][1] * (d \div returned[5][2])
                    = 12 * part(1) + 8 * part(2) + 49 * part(3) + 8 * part(4)
       ELSE ~IsFinite(returned[5])

C4_Witness ==
  /\ pc = "done"
  /\ \A i \in 1..5 : IsFinite(returned[i])
  /\ returned[1] # Zero /\ returned[3] # Zero /\ returned[1] # returned[3]
  /\ returned[2] # returned[4]

\* the elementwise Huber loss (delta = 1) of a difference of h halves, in
\* eighths: 0.5 d^2 up to |d| = 1, |d| - 0.5 beyond
HuberEighths(h) == IF Abs(h) <= 2 THEN h * h ELSE 4 * (Abs(h) - 1)

\* the sum over the positive anchors of the batch and the 4 coordinates
HuberTotalEighths ==
  LET S == {f \in 1..NumFlat : y_true[ImageOf(f)].positiveness[AnchorOf(f)] = 1} \X Coords
      d(e) == y_pred[ImageOf(e[1])].pred_offset[AnchorOf(e[1])][e[2]]
                - y_true[ImageOf(e[1])].box_targets[AnchorOf(e[1])][e[2]]
      RECURSIVE Sum(_)
      Sum(T) == IF T = {} THEN 0
                ELSE LET e == CHOOSE x \in T : TRUE IN HuberEighths(d(e)) + Sum(T \ {e})
  IN Sum(S)

\* C5: the localization loss is the elementwise Huber loss summed over the
\* 4 coordinates and the positive anchors, divided by the number of
\* positive anchors (one positive anchor with each offset 0.5 off: 0.5).
C5_HuberSummedOverCoordinates ==
  (pc # "loc" /\ NumPos >= 1) =>
    /\ IsFinite(loc_loss)
    /\ 8 * NumPos * loc_loss[1] = HuberTotalEighths * loc_loss[2]

Resized(b, m) == ResizeMask(y_true[b].mask_target[m])

RealSlots(b) == {m \in Slots : m < y_true[b].num_obj}

WithMask(t, m, name) == [t EXCEPT !.mask_target[m] = MaskPattern(name)]

WithClass(t, m, c) == [t EXCEPT !.classes[m] = c]

\* C7: the segmentation target of an image, and so its loss, is decided by
\* the slots below num_obj alone: whatever mask and class a slot at or above
\* num_obj holds, the targets the image can get are the same, the target
\* built is one of them, and a channel no object below num_obj belongs to
\* is all zero.
C7_PaddingIgnored ==
  pc = "done" =>
    \A b \in Images :
      /\ \A c \in Classes :
           Writers(y_true[b].classes, RealSlots(b), c) = {} => seg_gt[b][c] = ZeroSegGt[c]
      /\ LET targets == SegGt(y_true[b])
         IN /\ seg_gt[b] \in targets
            /\ \A m \in Slots \ RealSlots(b) :
                 /\ \A name \in MaskNames : SegGt(WithMask(y_true[b], m, name)) = targets
                 /\ \A c \in Classes : SegGt(WithClass(y_true[b], m, c)) = targets

\* a padding slot holds a mask that is not empty, of a class no object has
C7_Witness ==
  /\ pc = "done"
  /\ \E b \in Images : \E m \in Slots \ RealSlots(b) :
       /\ \E px \in SegPixels : Resized(b, m)[px] = 1
       /\ y_true[b].classes[m] \in Classes
       /\ Writers(y_true[b].classes, RealSlots(b), y_true[b].classes[m]) = {}
       /\ seg_gt[b][y_true[b].classes[m]] = ZeroSegGt[y_true[b].classes[m]]

AnchorPermutations == {s \in [Anchors -> Anchors] : \A i, j \in Anchors : s[i] = s[j] => i = j}

\* the bundles of one image with its anchors reordered by s, every
\* per-anchor field alike
PermutedTrue(t, s) ==
  [t EXCEPT !.cls_targets = [a \in Anchors |-> t.cls_targets[s[a]]],
            !.box_targets = [a \in Anchors |-> t.box_targets[s[a]]],
            !.positiveness = [a \in Anchors |-> t.positiveness[s[a]]],
            !.max_id_for_anchors = [a \in Anchors |-> t.max_id_for_anchors[s[a]]]]

PermutedPred(p, s) ==
  [p EXCEPT !.pred_cls = [a \in Anchors |-> p.pred_cls[s[a]]],
            !.pred_offset = [a \in Anchors |-> p.pred_offset[s[a]]],
            !.pred_mask_coef = [a \in Anchors |-> p.pred_mask_coef[s[a]]]]

\* the mask loss of a whole batch, images in index order
BatchMaskLoss(yt, yp) ==
  FDiv(FSum([b \in Images |-> ImageMaskLoss(yt[b], yp[b])]),
       FromInt(Len(WhereEq(yt, 1))))

\* C8: reordering the anchors of one image, consistently in every
\* per-anchor input, leaves the localization, classification and mask
\* losses as the call computed them, ties of the hard-negative score at the
\* cut-off included (the segmentation loss reads no per-anchor input).
\* Stated on the batches whose sort is defined.
C8_PermutationInvariance ==
  (pc = "done" /\ SortDefined) =>
    \A b \in Images : \A s \in AnchorPermutations :
      LET yt == [y_true EXCEPT ![b] = PermutedTrue(y_true[b], s)]
          yp == [y_pred EXCEPT ![b] = PermutedPred(y_pred[b], s)]
      IN /\ LossLocation(yt, yp) = loc_loss
         /\ {LossClass(yt, yp, sel) : sel \in NegIndicesForLoss(yt, yp)} = {conf_loss}
         /\ BatchMaskLoss(yt, yp) = mask_loss

\* an image holds more objects than slots, or a positive anchor is matched
\* to no object of its image
PreconditionBroken ==
  \E b \in Images :
    \/ y_true[b].num_obj > MaxObjects
    \/ \E a \in Anchors : /\ y_true[b].positiveness[a] = 1
                          /\ y_true[b].max_id_for_anchors[a] \notin 0..(y_true[b].num_obj - 1)

\* C9: a call on a batch that breaks one of these preconditions ends in an
\* error and returns no loss values.
C9_FailFast == PreconditionBroken => (pc # "done" /\ returned = Unset)

\* the images the running loop has taken so far
Taken == {order[i] : i \in 1..idx}

MaskSumOf(S) ==
  LET q == SortedSeq(S) IN FSum([i \in 1..Len(q) |-> ImageMaskLoss(y_true[q[i]], y_pred[q[i]])])

PosCountOf(S) == Cardinality({f \in 1..NumFlat : ImageOf(f) \in S /\ y_true[ImageOf(f)].positiveness[AnchorOf(f)] = 1})

SegSumOf(S) ==
  LET q == SortedSeq(S) IN FSum([i \in 1..Len(q) |-> ImageSegLoss(y_pred[q[i]], seg_gt[q[i]])])

\* C10: whatever the order in which the loops take the images, the
\* accumulators hold the sum over the images taken so far of what each
\* image alone contributes (an image with no positive anchor adds nothing),
\* so the mask loss is the batch sum over the positive count of the whole
\* batch and the segmentation loss the batch sum over SegSize^2 and the
\* batch size, the same for every order.
C10_OrderIndependent ==
  /\ pc = "mask" => (loss_mask = MaskSumOf(Taken) /\ total_pos = PosCountOf(Taken))
  /\ pc = "seg" => loss_seg = SegSumOf(Taken)
  /\ pc = "done" =>
       /\ returned[3] = FDiv(MaskSumOf(Images), FromInt(PosCountOf(Images)))
       /\ returned[4] = FDiv(FDiv(SegSumOf(Images), FromInt(SegSize * SegSize)), FromInt(BatchSize))

\* a call that took the images out of index order, on images whose
\* contributions differ, one of them without a positive anchor
C10_Witness ==
  /\ pc = "done"
  /\ order # Identity
  /\ IsFinite(mask_loss) /\ mask_loss # Zero
  /\ \E b \in Images : PosAnchors(y_true[b]) = <<>>
  /\ \E b1, b2 \in Images :
       /\ ImageMaskLoss(y_true[b1], y_pred[b1]) # ImageMaskLoss(y_true[b2], y_pred[b2])
       /\ ImageSegLoss(y_pred[b1], seg_gt[b1]) # ImageSegLoss(y_pred[b2], seg_gt[b2])

====
